---------------------------- MODULE Spec2Model ----------------------------
(***************************************************************************)
(* Model of wod_prof_db: ingestion of WOD profiles into a catalog          *)
(* (wod_prof_db.py) and the radius search / quality gate / vertical        *)
(* regridding / aggregation pipeline over that catalog (wod_db_utils.py).  *)
(*                                                                         *)
(* Conventions                                                             *)
(*  - A numpy masked array is a pair of sequences: the data and the mask   *)
(*    (TRUE = masked = missing), of the same length.                       *)
(*  - The mask attribute of the array given to z_pinterp is a record       *)
(*    [nomask, bits]: nomask is TRUE when the array was built without a    *)
(*    mask (var.mask is then the scalar numpy.ma.nomask, not an array);    *)
(*    bits is the mask level by level (all FALSE under nomask).            *)
(*  - not-a-number is the value NaN below.                                 *)
(*  - scipy's pchip and numpy's nan-statistics are library code: their     *)
(*    numeric result is kept as a term naming the function and the exact   *)
(*    arguments the program hands to it; what the program decides (which   *)
(*    arguments, in which order, NaN outside the hull, the exception for   *)
(*    an abscissa that is not strictly increasing) is computed.            *)
(***************************************************************************)
EXTENDS Integers, Sequences, FiniteSets, TLC

VARIABLES
    \* ---- z_pinterp applied to one profile (wod_db_utils.py:70-82)
    r_in,        \* [var, mask, pres]: the arguments var (data, mask) and pres
    r_sidx,      \* the index array used at line 80 (<<>> if never computed)
    r_handed,    \* the (pressure, value) pairs handed to pchip
    r_out,       \* the value returned / exception raised
    r_pc,        \* "call" before the call, "done" after it
    \* ---- quik_quality_control applied to a subset (wod_db_utils.py:50-58)
    q_in,        \* the argument dbase
    q_dp,        \* the argument dp_crit
    q_out,       \* the subset returned
    q_out2,      \* the subset returned when q_out is filtered again
    q_pc,        \* "call", "once", "twice"
    \* ---- assess_prof applied to one profile (wod_prof_db.py:60-73)
    a_in,        \* the profile: masks of p(), s(), t() and the two QC scores
    a_out,       \* "true", "false" or "raise" (an exception left the function)
    a_pc,        \* "call", "done"
    \* ---- main of wod_prof_db.py, the list filling loop (lines 120-150)
    prof_files,  \* the input files, each the sequence of its profiles
    fidx,        \* index in prof_files of the file dafile being worked on
    fpos,        \* position of fid: profiles of dafile read so far
    dbase,       \* the list of prof_data of the profiles found usable
    nread,       \* nread[f][p]: times profile p of file f was read and checked
    i_pc,        \* "for", "while", "done", "raised"
    \* ---- search_assemble_radavg (wod_db_utils.py:147-185)
    wod_dbase,   \* the argument wod_dbase: the catalog
    lon_arr,     \* the argument lon_arr
    lat_arr,     \* the argument lat_arr
    which_ones,  \* the argument which_ones
    kmrad,       \* the argument kmrad
    g_n,         \* query points dealt with so far (the loop index n)
    avg_vars_grd,\* the four lists the loop fills
    std_vars_grd,
    min_vars_grd,
    max_vars_grd,
    g_calls,     \* the calls of z_pinterp made for the latest query point
    g_raised_in, \* the function in which the exception was raised, or "none"
    g_pc         \* "loop", "returned", "raised"

rvars == <<r_in, r_sidx, r_handed, r_out, r_pc>>
qvars == <<q_in, q_dp, q_out, q_out2, q_pc>>
avars == <<a_in, a_out, a_pc>>
ivars == <<prof_files, fidx, fpos, dbase, nread, i_pc>>
gvars == <<wod_dbase, lon_arr, lat_arr, which_ones, kmrad, g_n, avg_vars_grd,
           std_vars_grd, min_vars_grd, max_vars_grd, g_calls, g_raised_in,
           g_pc>>
vars == <<rvars, qvars, avars, ivars, gvars>>

----------------------------------------------------------------------------
(* Bounds of the model *)

\* longest profile (number of levels) given to z_pinterp
MaxLen == 3
\* number of levels of the standard grid
NZ == 4
\* spacing of the standard grid
DZ == 20

----------------------------------------------------------------------------
(* Generic helpers *)

\* all sequences over S of length at most n
SeqsUpTo(S, n) == UNION {[1..k -> S] : k \in 0..n}

\* permutations of 1..n, as sequences
Perms(n) == {f \in [1..n -> 1..n] : \A i, j \in 1..n : f[i] = f[j] => i = j}

\* the sequence s itself, with its elements computed once
Materialize(s) == <<>> \o s

\* s[idx]: numpy fancy indexing by an index array
Take(s, idx) == [i \in 1..Len(idx) |-> s[idx[i]]]

\* s[keep]: numpy boolean-mask indexing, order preserved
RECURSIVE MaskSelect(_, _)
MaskSelect(s, keep) ==
    IF Len(s) = 0 THEN <<>>
    ELSE IF keep[1] THEN <<s[1]>> \o MaskSelect(Tail(s), Tail(keep))
         ELSE MaskSelect(Tail(s), Tail(keep))

NaN == <<"nan">>

\* np.empty((n,)) filled with nan
NaNRow(n) == [i \in 1..n |-> NaN]

\* np.arange(0, zmax + dz, dz)
Arange(zmax, dz) == [i \in 1..(zmax \div dz + 1) |-> (i - 1) * dz]

----------------------------------------------------------------------------
(* scipy.interpolate.pchip(x, y, extrapolate=False), as used at line 81 *)

StrictlyIncreasing(x) == \A i \in 1..(Len(x) - 1) : x[i] < x[i + 1]

\* construction: raises ValueError unless x is strictly increasing
pchip(x, y) ==
    IF Len(x) >= 2 /\ StrictlyIncreasing(x)
    THEN [ok |-> TRUE, pts |-> [i \in 1..Len(x) |-> <<x[i], y[i]>>]]
    ELSE [ok |-> FALSE, pts |-> <<>>]

\* evaluation fp(z): nan outside [x[1], x[n]], else the interpolated value
pchip_eval(fp, z) ==
    IF z < fp.pts[1][1] \/ z > fp.pts[Len(fp.pts)][1]
    THEN NaN
    ELSE <<"pchip", fp.pts, z>>

----------------------------------------------------------------------------
(* z_pinterp (wod_db_utils.py:70-82) *)

\* the number of FALSE entries of a boolean mask array
CountValid(mask) == Cardinality({i \in 1..Len(mask) : ~mask[i]})

\* var.mask of a masked array built with a mask array / without any mask
MaskArray(bits) == [nomask |-> FALSE, bits |-> bits]
nomask(n) == [nomask |-> TRUE, bits |-> [i \in 1..n |-> FALSE]]

\* np.count_nonzero(~var.mask) at line 73: the number of unmasked levels, but
\* 1 whatever the number of levels when var.mask is the scalar nomask
\* (~nomask is the scalar True)
CountUnmasked(mask) == IF mask.nomask THEN 1 ELSE CountValid(mask.bits)

\* any(pres[1:] < pres[:-1])
NeedsSort(pres) == \E i \in 1..(Len(pres) - 1) : pres[i + 1] < pres[i]

\* the index arrays np.argsort(pres) may return: every permutation that puts
\* pres in non-decreasing order (the default sort kind is not stable, so the
\* order of equal pressures is the build's choice)
ArgSorts(pres) ==
    {s \in Perms(Len(pres)) :
        \A i \in 1..(Len(pres) - 1) : pres[s[i]] <= pres[s[i + 1]]}

\* the stable member of ArgSorts(pres)
StableArgSort(pres) ==
    CHOOSE s \in ArgSorts(pres) :
        \A i \in 1..(Len(pres) - 1) :
            pres[s[i]] = pres[s[i + 1]] => s[i] < s[i + 1]

Identity(n) == [i \in 1..n |-> i]

\* lines 78-79: the order in which the levels are used
SortIdx(pres, sidx) == IF NeedsSort(pres) THEN sidx ELSE Identity(Len(pres))

\* line 80, var = var[sidx]: the masked array is indexed by the index array,
\* data and mask alike; it comes out with len(sidx) levels. Without a sort
\* (line 78 false) var is left as it is.
ReorderVarForgotten(var, mask, pres, idx) == [data |-> var, mask |-> mask.bits]
ReorderVar(var, mask, pres, idx) ==
    IF NeedsSort(pres)
    THEN [data |-> Take(var, idx), mask |-> Take(mask.bits, idx)]
    ELSE [data |-> var, mask |-> mask.bits]

\* an index that fails (IndexError): at line 80 var[sidx] when var has fewer
\* levels than pres (sidx names every position of pres; a longer var is cut
\* down to the len(pres) levels sidx names); at line 81 pres[~var.mask] when
\* no sort was done and the boolean index has not the length of pres
IndexFails(var, pres) ==
    IF NeedsSort(pres) THEN Len(var) < Len(pres) ELSE Len(var) # Len(pres)

\* the arguments of pchip at line 81: pres[~var.mask] and var.compressed()
Handed(var, mask, pres, sidx) ==
    LET idx  == SortIdx(pres, sidx)
        p2   == Take(pres, idx)
        v2   == ReorderVar(var, mask, pres, idx)
        keep == [i \in 1..Len(v2.mask) |-> ~v2.mask[i]]
        x    == MaskSelect(p2, keep)
        y    == MaskSelect(v2.data, keep)
    IN  Materialize([i \in 1..Len(x) |-> <<x[i], y[i]>>])

\* line 73
TooFewLoose(mask) == CountUnmasked(mask) < 1
TooFew(mask) == CountUnmasked(mask) < 2

\* the whole function; err = an exception left the function (IndexError from
\* an index that fails, ValueError from pchip)
z_pinterp_with(var, mask, pres, std_z, sidx) ==
    IF TooFew(mask)
    THEN [err |-> FALSE, row |-> NaNRow(Len(std_z))]
    ELSE IF IndexFails(var, pres)
    THEN [err |-> TRUE, row |-> <<>>]
    ELSE LET h  == Handed(var, mask, pres, sidx)
             fp == pchip([i \in 1..Len(h) |-> h[i][1]],
                         [i \in 1..Len(h) |-> h[i][2]])
         IN  IF fp.ok
             THEN [err |-> FALSE,
                   row |-> Materialize([k \in 1..Len(std_z) |->
                                            pchip_eval(fp, std_z[k])])]
             ELSE [err |-> TRUE, row |-> <<>>]

\* the result does not depend on the order argsort gives to equal pressures
\* (equal valid pressures make pchip raise whatever their order)
z_pinterp(var, mask, pres, std_z) ==
    z_pinterp_with(var, mask, pres, std_z, StableArgSort(pres))

----------------------------------------------------------------------------
(* Specification SpecRegrid: z_pinterp on every small profile *)

PresVals == {10, 30, 50}
VarVals == {1, 2}
Levels == [p : PresVals, v : VarVals, m : BOOLEAN]

StdGrid == Arange((NZ - 1) * DZ, DZ)

\* var = np.ma.array(values, mask=missing) and pres
ProfileOf(levels) ==
    [var  |-> [i \in 1..Len(levels) |-> levels[i].v],
     mask |-> MaskArray([i \in 1..Len(levels) |-> levels[i].m]),
     pres |-> [i \in 1..Len(levels) |-> levels[i].p]]

\* var = np.ma.array(values), no level missing and no mask given
ProfileNoMask(levels) ==
    [var  |-> [i \in 1..Len(levels) |-> levels[i].v],
     mask |-> nomask(Len(levels)),
     pres |-> [i \in 1..Len(levels) |-> levels[i].p]]

NoOut == [err |-> FALSE, row |-> <<>>]

\* the variables of an operation that a specification does not exercise
IdleR ==
    /\ r_in = [var |-> <<>>, mask |-> MaskArray(<<>>), pres |-> <<>>]
    /\ r_sidx = <<>>
    /\ r_handed = <<>>
    /\ r_out = NoOut
    /\ r_pc = "idle"
IdleQ ==
    /\ q_in = <<>>
    /\ q_dp = 0
    /\ q_out = <<>>
    /\ q_out2 = <<>>
    /\ q_pc = "idle"
IdleA ==
    /\ a_in = <<>>
    /\ a_out = "none"
    /\ a_pc = "idle"
IdleI ==
    /\ prof_files = <<>>
    /\ fidx = 0
    /\ fpos = 0
    /\ dbase = <<>>
    /\ nread = <<>>
    /\ i_pc = "idle"
IdleG ==
    /\ wod_dbase = <<>>
    /\ lon_arr = <<>>
    /\ lat_arr = <<>>
    /\ which_ones = "none"
    /\ kmrad = 0
    /\ g_n = 0
    /\ avg_vars_grd = <<>>
    /\ std_vars_grd = <<>>
    /\ min_vars_grd = <<>>
    /\ max_vars_grd = <<>>
    /\ g_calls = <<>>
    /\ g_raised_in = "none"
    /\ g_pc = "idle"

InitRegrid ==
    /\ r_in \in {ProfileOf(l) : l \in SeqsUpTo(Levels, MaxLen)}
               \cup {ProfileNoMask(l) :
                        l \in {k \in SeqsUpTo(Levels, MaxLen) :
                                   \A i \in 1..Len(k) : ~k[i].m}}
    /\ r_sidx = <<>>
    /\ r_handed = <<>>
    /\ r_out = NoOut
    /\ r_pc = "call"
    /\ IdleQ /\ IdleA /\ IdleI /\ IdleG

\* line 73-76: too few valid samples, the nan row is returned
RegridDegenerate ==
    /\ r_pc = "call"
    /\ TooFew(r_in.mask)
    /\ r_out' = z_pinterp(r_in.var, r_in.mask, r_in.pres, StdGrid)
    /\ r_pc' = "done"
    /\ UNCHANGED <<r_in, r_sidx, r_handed>>
    /\ UNCHANGED <<qvars, avars, ivars, gvars>>

\* line 77-82: sort if needed, build the interpolant, evaluate it
RegridInterp ==
    /\ r_pc = "call"
    /\ ~TooFew(r_in.mask)
    /\ \E sidx \in ArgSorts(r_in.pres) :
        /\ r_sidx' = SortIdx(r_in.pres, sidx)
        /\ r_handed' = Handed(r_in.var, r_in.mask, r_in.pres, sidx)
        /\ r_out' = z_pinterp_with(r_in.var, r_in.mask, r_in.pres, StdGrid, sidx)
    /\ r_pc' = "done"
    /\ UNCHANGED r_in
    /\ UNCHANGED <<qvars, avars, ivars, gvars>>

NextRegrid == RegridDegenerate \/ RegridInterp

SpecRegrid == InitRegrid /\ [][NextRegrid]_vars

----------------------------------------------------------------------------
(* Properties of z_pinterp, checked under SpecRegrid *)

\* the non-missing (pressure, value) pairs of a profile, in input order
ValidPairs(prof) ==
    MaskSelect([i \in 1..Len(prof.pres) |-> <<prof.pres[i], prof.var[i]>>],
               [i \in 1..Len(prof.mask.bits) |-> ~prof.mask.bits[i]])

\* the profile with its (pressure, value, missing) triples put in ascending
\* pressure order beforehand
PreSorted(prof) ==
    LET s == StableArgSort(prof.pres)
    IN  [var  |-> Take(prof.var, s),
         mask |-> [nomask |-> prof.mask.nomask,
                   bits   |-> Take(prof.mask.bits, s)],
         pres |-> Take(prof.pres, s)]

SamePairs(a, b) ==
    /\ Len(a) = Len(b)
    /\ \E f \in Perms(Len(a)) : a = Take(b, f)

\* an interpolant was built for the profile (line 81 was reached)
InterpolantBuilt == r_sidx # <<>>

\* C7: z_pinterp does not depend on the order of the input levels. Whatever
\* the order of the (pressure, value, missing) triples, whenever an
\* interpolant is built the pairs handed to it are in ascending pressure
\* order and are exactly the non-missing pairs of the profile (each value
\* with its own pressure); one is built for every array with a mask array and
\* at least 2 non-missing levels; and the value returned is in every case the
\* one returned for the pre-sorted profile.
C7_RegridOrderInvariant ==
    r_pc = "done" =>
        /\ InterpolantBuilt =>
              /\ \A i \in 1..(Len(r_handed) - 1) :
                     r_handed[i][1] <= r_handed[i + 1][1]
              /\ SamePairs(r_handed, ValidPairs(r_in))
        /\ (~r_in.mask.nomask /\ CountValid(r_in.mask.bits) >= 2) =>
              InterpolantBuilt
        /\ LET q == PreSorted(r_in)
           IN  /\ ~NeedsSort(q.pres)
               /\ r_out = z_pinterp(q.var, q.mask, q.pres, StdGrid)

\* C7 witness: the profile [50, 10, 30] / [2, 1, 2], all valid, was regridded
C7_Witness ==
    /\ r_pc = "done"
    /\ r_in.pres = <<50, 10, 30>>
    /\ r_in.var = <<2, 1, 2>>
    /\ r_in.mask = MaskArray(<<FALSE, FALSE, FALSE>>)
    /\ r_handed = <<<<10, 1>>, <<30, 2>>, <<50, 2>>>>
    /\ ~r_out.err

\* C8: a profile with fewer than 2 non-missing samples gives a row of
\* len(std_z) not-a-numbers, no exception and no interpolant, whatever the
\* pressure sequence is.
C8_DegenerateProfileNaN ==
    (r_pc = "done" /\ CountValid(r_in.mask.bits) < 2) =>
        /\ ~r_out.err
        /\ Len(r_out.row) = Len(StdGrid)
        /\ \A k \in 1..Len(StdGrid) : r_out.row[k] = NaN
        /\ r_handed = <<>>
        /\ r_sidx = <<>>

\* C8 witness: exactly one valid sample among three unsorted levels
C8_Witness ==
    /\ r_pc = "done"
    /\ Len(r_in.mask.bits) = 3
    /\ CountValid(r_in.mask.bits) = 1
    /\ NeedsSort(r_in.pres)
    /\ r_out.row = NaNRow(NZ)

----------------------------------------------------------------------------
(* quik_quality_control (wod_db_utils.py:50-58) *)

\* a float32 field: a number or not-a-number
Float(v) == [nan |-> FALSE, v |-> v]
FloatNaN == [nan |-> TRUE, v |-> 0]

\* dbase['dpm'] <= dp_crit, elementwise (a comparison with nan is False)
DpmOkStrict(dpm, dp_crit) == ~dpm.nan /\ dpm.v < dp_crit
DpmOk(dpm, dp_crit) == ~dpm.nan /\ dpm.v <= dp_crit

\* good_idxs of lines 55-57, for one record
good_idxs(rec, dp_crit) ==
    (rec.pt_qc = 0 /\ rec.ps_qc = 0) /\ DpmOk(rec.dpm, dp_crit)

\* dbase[good_idxs]
quik_quality_control(db, dp_crit) ==
    MaskSelect(db, [i \in 1..Len(db) |-> good_idxs(db[i], dp_crit)])

\* dp_crit=10. (line 50)
DpCritDefault == 10

----------------------------------------------------------------------------
(* Specification SpecQC: the quality gate on every small subset *)

\* largest subset given to the quality gate
MaxSubset == 3

QCRecords ==
    [pt_qc : {0, 1}, ps_qc : {0, 2},
     dpm : {Float(DpCritDefault), Float(DpCritDefault + 1), FloatNaN}]

InitQC ==
    /\ q_in \in SeqsUpTo(QCRecords, MaxSubset)
    /\ q_dp \in {DpCritDefault, DpCritDefault + 1}
    /\ q_out = <<>>
    /\ q_out2 = <<>>
    /\ q_pc = "call"
    /\ IdleR /\ IdleA /\ IdleI /\ IdleG

\* the gate applied to the subset
QualityControl ==
    /\ q_pc = "call"
    /\ q_out' = quik_quality_control(q_in, q_dp)
    /\ q_pc' = "once"
    /\ UNCHANGED <<q_in, q_dp, q_out2>>
    /\ UNCHANGED <<rvars, avars, ivars, gvars>>

\* the gate applied to its own result, same threshold
QualityControlAgain ==
    /\ q_pc = "once"
    /\ q_out2' = quik_quality_control(q_out, q_dp)
    /\ q_pc' = "twice"
    /\ UNCHANGED <<q_in, q_dp, q_out>>
    /\ UNCHANGED <<rvars, avars, ivars, gvars>>

NextQC == QualityControl \/ QualityControlAgain

SpecQC == InitQC /\ [][NextQC]_vars

\* the indices of the accepted records of a subset, as the claim states them
AcceptedIdx(db, dp) ==
    {i \in 1..Len(db) :
        /\ db[i].pt_qc = 0
        /\ db[i].ps_qc = 0
        /\ ~db[i].dpm.nan
        /\ db[i].dpm.v <= dp}

\* out is db restricted to the index set idx, in the order of db
IsRestriction(out, db, idx) ==
    /\ Len(out) = Cardinality(idx)
    /\ \E f \in [1..Len(out) -> idx] :
         /\ \A j \in 1..(Len(out) - 1) : f[j] < f[j + 1]
         /\ \A j \in 1..Len(out) : out[j] = db[f[j]]

\* C6: the quality gate returns exactly the records with pt_qc = 0, ps_qc = 0
\* and dpm <= the threshold, unchanged and in input order; filtering the
\* result again with the same threshold returns the same subset.
C6_QualityGateFilterIdempotent ==
    /\ q_pc \in {"once", "twice"} =>
         IsRestriction(q_out, q_in, AcceptedIdx(q_in, q_dp))
    /\ q_pc = "twice" => q_out2 = q_out

\* C6 witness: of three records the first and third pass (the third with
\* dpm equal to the threshold), the second has dpm above it; filtered twice
C6_Witness ==
    /\ q_pc = "twice"
    /\ Len(q_in) = 3
    /\ q_dp = DpCritDefault
    /\ q_in[2].dpm = Float(DpCritDefault + 1)
    /\ q_in[3].dpm = Float(DpCritDefault)
    /\ q_out = <<q_in[1], q_in[3]>>
    /\ q_out2 = q_out

----------------------------------------------------------------------------
(* assess_prof (wod_prof_db.py:60-73) *)

\* a QC score of the profile header: an integer or None
Some(v) == [none |-> FALSE, v |-> v]
None == [none |-> TRUE, v |-> 0]

\* g_crit=.5 (line 60), as the fraction GCritNum / GCritDen
GCritNum == 1
GCritDen == 2
\* QS=3 (line 60)
QS == 3

\* len(x.compressed()) / profile.n_levels() < g_crit   (n_levels > 0)
LowCoverage(mask, n_levels) ==
    CountValid(mask) * GCritDen < GCritNum * n_levels

\* line 66: p_test or t_test or s_test
CoverageFailNoSal(prof) ==
    \/ LowCoverage(prof.pmask, prof.n_levels)
    \/ LowCoverage(prof.tmask, prof.n_levels)
CoverageFail(prof) ==
    \/ LowCoverage(prof.pmask, prof.n_levels)
    \/ LowCoverage(prof.tmask, prof.n_levels)
    \/ LowCoverage(prof.smask, prof.n_levels)

\* the whole function: the division of line 63 raises ZeroDivisionError for
\* a profile without levels
assess_prof(prof) ==
    IF prof.n_levels = 0 THEN "raise"
    ELSE IF CoverageFail(prof) THEN "false"
    ELSE IF prof.t_qc.none \/ prof.s_qc.none THEN "false"
    ELSE IF prof.t_qc.v < QS \/ prof.s_qc.v < QS THEN "true"
    ELSE "false"

----------------------------------------------------------------------------
(* Specification SpecAssess: assess_prof on every small profile *)

\* most levels of a profile given to assess_prof
MaxLevs == 2

QCScores == {None, Some(0), Some(QS - 1), Some(QS), Some(QS + 1)}

AssessInputs ==
    UNION {[n_levels : {n},
            pmask : [1..n -> BOOLEAN],
            smask : [1..n -> BOOLEAN],
            tmask : [1..n -> BOOLEAN],
            s_qc : QCScores,
            t_qc : QCScores] : n \in 0..MaxLevs}

InitAssess ==
    /\ a_in \in AssessInputs
    /\ a_out = "none"
    /\ a_pc = "call"
    /\ IdleR /\ IdleQ /\ IdleI /\ IdleG

Assess ==
    /\ a_pc = "call"
    /\ a_out' = assess_prof(a_in)
    /\ a_pc' = "done"
    /\ UNCHANGED a_in
    /\ UNCHANGED <<rvars, qvars, ivars, gvars>>

NextAssess == Assess

SpecAssess == InitAssess /\ [][NextAssess]_vars

\* C3 (as claimed): assess_prof returns true only if both QC scores are
\* present and both are strictly below the threshold QS.
C3_UsableOnlyIfBothQCBelow ==
    (a_pc = "done" /\ a_out = "true") =>
        /\ ~a_in.s_qc.none /\ ~a_in.t_qc.none
        /\ a_in.s_qc.v < QS
        /\ a_in.t_qc.v < QS

\* the levels at which pressure, salinity and temperature are all valid
JointValid(prof) ==
    {i \in 1..prof.n_levels :
        ~prof.pmask[i] /\ ~prof.smask[i] /\ ~prof.tmask[i]}

\* C4 (as claimed): assess_prof returns true only if the fraction of levels
\* where pressure, salinity and temperature are valid at the same level is at
\* least g_crit.
C4_UsableOnlyIfJointCoverage ==
    (a_pc = "done" /\ a_out = "true") =>
        Cardinality(JointValid(a_in)) * GCritDen >= GCritNum * a_in.n_levels

\* C4 (amended): assess_prof returns true only if each of pressure, salinity
\* and temperature, counted separately, is valid at a fraction of the levels
\* of at least g_crit.
C4_UsableOnlyIfEachCoverage ==
    (a_pc = "done" /\ a_out = "true") =>
        /\ a_in.n_levels > 0
        /\ CountValid(a_in.pmask) * GCritDen >= GCritNum * a_in.n_levels
        /\ CountValid(a_in.smask) * GCritDen >= GCritNum * a_in.n_levels
        /\ CountValid(a_in.tmask) * GCritDen >= GCritNum * a_in.n_levels

\* C4 witness: a profile accepted although no level has all three valid
C4_Witness ==
    /\ a_pc = "done"
    /\ a_out = "true"
    /\ a_in.n_levels = 2
    /\ JointValid(a_in) = {}

----------------------------------------------------------------------------
(* get_prof_data (wod_prof_db.py:15-40) and the list filling loop of main   *)
(* (wod_prof_db.py:120-150)                                                 *)

\* get_prof_data: the tuple of the profile's data and prof_ok. A profile
\* without levels makes it raise (the minimum of an empty array at line 21,
\* the division by n_levels of line 63). src, the place of the profile in the
\* input, is carried along for the properties only.
get_prof_data(profile, f, p) ==
    LET ok == assess_prof(profile)
    IN  [raised    |-> (ok = "raise"),
         prof_ok   |-> (ok = "true"),
         prof_data |-> [src |-> <<f, p>>, data |-> profile]]

\* lines 130-131 and 136-137: if prof_ok: dbase.append(prof_data)
AppendAlways(db, got) == Append(db, got.prof_data)
AppendIfOk(db, got) == IF got.prof_ok THEN Append(db, got.prof_data) ELSE db

\* profile.is_last_profile_in_file(fid), after p profiles of the file are read
is_last_profile_in_file(file, p) == p = Len(file)

----------------------------------------------------------------------------
(* Specification SpecIngest: the list filling loop on every small input *)

\* most input files
MaxFiles == 2
\* most profiles in a file
MaxProfs == 2

FullMask(n) == [i \in 1..n |-> FALSE]

\* a usable profile, an unusable one (salinity missing at every level) and
\* one without levels
IngestProfiles ==
    {[n_levels |-> 2, pmask |-> FullMask(2), smask |-> FullMask(2),
      tmask |-> FullMask(2), s_qc |-> Some(0), t_qc |-> Some(0)],
     [n_levels |-> 2, pmask |-> FullMask(2), smask |-> <<TRUE, TRUE>>,
      tmask |-> FullMask(2), s_qc |-> Some(0), t_qc |-> Some(0)],
     [n_levels |-> 0, pmask |-> <<>>, smask |-> <<>>,
      tmask |-> <<>>, s_qc |-> Some(0), t_qc |-> Some(0)]}

IngestFiles == SeqsUpTo(IngestProfiles, MaxProfs) \ {<<>>}

InitIngest ==
    /\ prof_files \in SeqsUpTo(IngestFiles, MaxFiles)
    /\ fidx = 0
    /\ fpos = 0
    /\ dbase = <<>>
    /\ nread = [f \in 1..Len(prof_files) |->
                   [p \in 1..Len(prof_files[f]) |-> 0]]
    /\ i_pc = "for"
    /\ IdleR /\ IdleQ /\ IdleA /\ IdleG

\* one profile read from file f at position p, checked, appended if usable
ReadProfile(f, p) ==
    LET got == get_prof_data(prof_files[f][p], f, p)
    IN  /\ nread' = [nread EXCEPT ![f][p] = @ + 1]
        /\ fidx' = f
        /\ fpos' = p
        /\ IF got.raised
           THEN /\ i_pc' = "raised"
                /\ UNCHANGED dbase
           ELSE /\ dbase' = AppendIfOk(dbase, got)
                /\ i_pc' = IF is_last_profile_in_file(prof_files[f], p)
                           THEN "for" ELSE "while"
        /\ UNCHANGED prof_files

\* lines 125-132: next file, its first profile
OpenFile ==
    /\ i_pc = "for"
    /\ fidx < Len(prof_files)
    /\ ReadProfile(fidx + 1, 1)
    /\ UNCHANGED <<rvars, qvars, avars, gvars>>

\* lines 133-138: one turn of the while loop
NextProfile ==
    /\ i_pc = "while"
    /\ ReadProfile(fidx, fpos + 1)
    /\ UNCHANGED <<rvars, qvars, avars, gvars>>

\* lines 139-150: the list becomes the structured array and is saved
SaveDbase ==
    /\ i_pc = "for"
    /\ fidx = Len(prof_files)
    /\ i_pc' = "done"
    /\ UNCHANGED <<prof_files, fidx, fpos, dbase, nread>>
    /\ UNCHANGED <<rvars, qvars, avars, gvars>>

NextIngest == OpenFile \/ NextProfile \/ SaveDbase

SpecIngest == InitIngest /\ [][NextIngest]_vars

\* profile p of file f comes at or before the place the loop has reached
ReadSoFar(f, p) == f < fidx \/ (f = fidx /\ p <= fpos)

\* C9: at every point of the ingestion, every record of dbase is the data of
\* a profile of the input for which assess_prof returned true, in the order
\* read; no profile has been read and checked more than once, the profiles
\* read are exactly those up to the place the loop has reached, and when the
\* loop ends every profile of every file has been read exactly once.
C9_OnlyUsableInCatalogEachReadOnce ==
    i_pc \in {"for", "while", "done", "raised"} =>
        /\ \A k \in 1..Len(dbase) :
             LET f == dbase[k].src[1]
                 p == dbase[k].src[2]
             IN  /\ f \in 1..Len(prof_files)
                 /\ p \in 1..Len(prof_files[f])
                 /\ dbase[k].data = prof_files[f][p]
                 /\ assess_prof(prof_files[f][p]) = "true"
                 /\ ReadSoFar(f, p)
        /\ \A k \in 1..(Len(dbase) - 1) :
             \/ dbase[k].src[1] < dbase[k + 1].src[1]
             \/ /\ dbase[k].src[1] = dbase[k + 1].src[1]
                /\ dbase[k].src[2] < dbase[k + 1].src[2]
        /\ \A f \in 1..Len(prof_files) : \A p \in 1..Len(prof_files[f]) :
             nread[f][p] = IF ReadSoFar(f, p) THEN 1 ELSE 0
        /\ i_pc = "done" =>
             \A f \in 1..Len(prof_files) : \A p \in 1..Len(prof_files[f]) :
                 nread[f][p] = 1

\* C9 witness: two files of two profiles each were read to the end, the
\* unusable profiles were left out and the usable ones were kept
C9_Witness ==
    /\ i_pc = "done"
    /\ Len(prof_files) = 2
    /\ Len(prof_files[1]) = 2 /\ Len(prof_files[2]) = 2
    /\ assess_prof(prof_files[1][1]) = "false"
    /\ assess_prof(prof_files[1][2]) = "true"
    /\ assess_prof(prof_files[2][1]) = "true"
    /\ assess_prof(prof_files[2][2]) = "false"
    /\ Len(dbase) = 2
    /\ dbase[1].src = <<1, 2>>
    /\ dbase[2].src = <<2, 1>>

----------------------------------------------------------------------------
(* lonlat_metrics, diffxy_from_difflonlat, lonlat_inside_km_radius          *)
(* (wod_db_utils.py:12-47)                                                  *)

Abs(x) == IF x < 0 THEN -x ELSE x

\* hx, hy of lines 19-20 at the latitudes the model's query points have, in
\* hectometres per degree (111320.58 and 110567.24 m at 0 degrees, 55802.12
\* and 111414.52 m at 60 degrees)
lonlat_metrics(alat) ==
    CASE alat = 0  -> [hx |-> 1113, hy |-> 1106]
      [] alat = 60 -> [hx |-> 558, hy |-> 1114]

diffxy_from_difflonlat(dlon, dlat, alat) ==
    LET m == lonlat_metrics(alat)
    IN  [dx |-> dlon * m.hx, dy |-> dlat * m.hy]

\* kmdist < kmrad, with both sides squared, in hectometres (a leg as long as
\* the radius decides alone, which keeps the squares small)
lonlat_inside_km_radius(lons, lats, pos, rad) ==
    [i \in 1..Len(lons) |->
        LET d == diffxy_from_difflonlat(lons[i] - pos[1], lats[i] - pos[2],
                                        pos[2])
            r == rad * 10
        IN  /\ Abs(d.dx) < r
            /\ Abs(d.dy) < r
            /\ d.dx * d.dx + d.dy * d.dy < r * r]

----------------------------------------------------------------------------
(* derive_variables (wod_db_utils.py:114-130) *)

\* the midpoints between consecutive pressure levels
MidPressure(pres) ==
    [k \in 1..(Len(pres) - 1) |-> (pres[k] + pres[k + 1]) \div 2]

\* gsw.Nsquared(SA, CT, pres, lat, alphabeta=True) for one record, as the
\* program uses its result: a tuple (N2, p_mid, alpha, beta) on the midpoint
\* levels, one fewer than the record has; a derived value is masked where
\* salinity or temperature is missing at either neighbouring level (the
\* results of a call on masked arrays carry a mask array). The
\* numbers are kept as terms naming the channel, the cast and the midpoint.
Nsquared(rec) ==
    LET m   == Len(rec.pres) - 1
        lev == [i \in 1..Len(rec.pres) |-> rec.sal_mask[i] \/ rec.temp_mask[i]]
        mk  == [k \in 1..m |-> lev[k] \/ lev[k + 1]]
        chan(c) == [data |-> [k \in 1..m |-> <<c, rec.cast, k>>],
                    mask |-> MaskArray(mk)]
    IN  <<chan("N2"), MidPressure(rec.pres), chan("alpha"), chan("beta")>>

\* the whole function: 'all' raises NameError at line 128 (Sig_dat is not
\* defined), 'N2' returns N2_dat, anything else falls off the end (None)
derive_variables(db, which) ==
    IF which = "all"
    THEN [raised |-> TRUE, none |-> FALSE, val |-> <<>>]
    ELSE IF which = "N2"
    THEN [raised |-> FALSE, none |-> FALSE,
          val |-> [i \in 1..Len(db) |-> Nsquared(db[i])]]
    ELSE [raised |-> FALSE, none |-> TRUE, val |-> <<>>]

----------------------------------------------------------------------------
(* wrap_regrid_2_std_z (wod_db_utils.py:133-144) *)

\* var_arr[:1] + var_arr[2:]
Channels(var_arr) == SubSeq(var_arr, 1, 1) \o SubSeq(var_arr, 3, Len(var_arr))

\* the pressure axis given to z_pinterp at line 135: var_arr[1]
RegridAxisOriginal(var_arr, pres) == pres
RegridAxis(var_arr, pres) == var_arr[2]

\* the calls of z_pinterp of the comprehension of lines 135-136, in order:
\* for var_arr in vars_arr for vr in var_arr[:1] + var_arr[2:]
RegridCalls(vars_arr, p_arr, std_z) ==
    LET nchan == IF Len(vars_arr) = 0 THEN 0 ELSE Len(Channels(vars_arr[1]))
    IN  Materialize([r \in 1..(Len(vars_arr) * nchan) |->
            LET p    == ((r - 1) \div nchan) + 1
                c    == ((r - 1) % nchan) + 1
                vr   == Channels(vars_arr[p])[c]
                axis == RegridAxis(vars_arr[p], p_arr[p])
            IN  [prof |-> p, chan |-> c, var |-> vr, axis |-> axis,
                 out |-> z_pinterp(vr.data, vr.mask, axis, std_z)]])

\* the first call that raises, 0 if none does
FirstRaise(calls) ==
    IF \E r \in 1..Len(calls) : calls[r].out.err
    THEN CHOOSE r \in 1..Len(calls) :
            /\ calls[r].out.err
            /\ \A q \in 1..(r - 1) : ~calls[q].out.err
    ELSE 0

\* np.vstack, np.reshape to (len(vars_arr), nchan, len(std_z)) and
\* np.moveaxis(..., 1, -1): reg_arr[p][z][c]
StackReshape(calls, nprof, nchan, nz) ==
    LET flat(j) == calls[((j - 1) \div nz) + 1].out.row[((j - 1) % nz) + 1]
    IN  Materialize([p \in 1..nprof |-> [z \in 1..nz |-> [c \in 1..nchan |->
            flat(((p - 1) * nchan + (c - 1)) * nz + z)]]])

\* the whole function: UnboundLocalError at line 144 unless which_ones is
\* 'N2'; an exception of z_pinterp ends the comprehension at that call
wrap_regrid_2_std_z(vars_arr, p_arr, std_z, which) ==
    IF which # "N2"
    THEN [raised |-> TRUE, in |-> "wrap_regrid_2_std_z", calls |-> <<>>,
          reg_arr |-> <<>>]
    ELSE LET calls == RegridCalls(vars_arr, p_arr, std_z)
             bad   == FirstRaise(calls)
         IN  IF bad # 0
             THEN [raised |-> TRUE, in |-> "z_pinterp",
                   calls |-> SubSeq(calls, 1, bad), reg_arr |-> <<>>]
             ELSE [raised |-> FALSE, in |-> "none", calls |-> calls,
                   reg_arr |-> StackReshape(calls, Len(vars_arr),
                                            Len(Channels(vars_arr[1])),
                                            Len(std_z))]

----------------------------------------------------------------------------
(* search_assemble_radavg (wod_db_utils.py:147-185) *)

\* np.nanmedian / np.nanstd / np.nanquantile along axis 0, one column: nan
\* if every entry is nan, else the statistic of the column
NanStat(name, col) ==
    IF \A p \in 1..Len(col) : col[p] = NaN THEN NaN ELSE <<name, col>>

NanReduce(name, vars_grd) ==
    [z \in 1..Len(vars_grd[1]) |-> [c \in 1..Len(vars_grd[1][z]) |->
        NanStat(name, [p \in 1..Len(vars_grd) |-> vars_grd[p][z][c]])]]

Field(db, f) == [i \in 1..Len(db) |-> db[i][f]]

\* lines 161-164: wod_loc_subset for query point i
LocSubset(db, lons, lats, i, rad) ==
    LET locs == lonlat_inside_km_radius(Field(db, "lon"), Field(db, "lat"),
                                        <<lons[i], lats[i]>>, rad)
    IN  quik_quality_control(MaskSelect(db, locs), DpCritDefault)

\* lines 166-178 for a subset that is not empty
Assemble(subset, std_z, which) ==
    LET vars_arr == derive_variables(subset, which)
    IN  IF vars_arr.raised
        THEN [raised |-> TRUE, in |-> "derive_variables", calls |-> <<>>,
              reg_arr |-> <<>>]
        ELSE wrap_regrid_2_std_z(vars_arr.val, Field(subset, "pres"), std_z,
                                 which)

----------------------------------------------------------------------------
(* Specification SpecAgg: search_assemble_radavg on every small input *)

\* most records in the catalog
MaxCat == 2
\* most query points
MaxQ == 2

NoMask(k) == [i \in 1..k |-> FALSE]

Cast(id, lon, lat, pt_qc, pres, sal_mask) ==
    [cast |-> id, lon |-> lon, lat |-> lat, pt_qc |-> pt_qc, ps_qc |-> 0,
     dpm |-> Float((pres[Len(pres)] - pres[1]) \div (Len(pres) - 1)),
     pres |-> pres, sal_mask |-> sal_mask, temp_mask |-> NoMask(Len(pres))]

\* the casts a catalog of the model is made of: a sorted one, an unsorted
\* one a degree away, one refused by the quality gate, one of two levels,
\* one at 60 degrees north with a missing salinity, one whose midpoint
\* pressures repeat
CatalogPool ==
    {Cast(1, 0, 0, 0, <<10, 20, 30>>, NoMask(3)),
     Cast(2, 1, 0, 0, <<30, 10, 20, 60>>, NoMask(4)),
     Cast(3, 0, 0, 1, <<10, 20, 30>>, NoMask(3)),
     Cast(4, 2, 1, 0, <<10, 20>>, NoMask(2)),
     Cast(5, 1, 60, 0, <<10, 20, 30, 40>>, <<FALSE, FALSE, FALSE, TRUE>>),
     Cast(6, 0, 0, 0, <<20, 40, 20, 30>>, NoMask(4))}

\* the query points tried: one on the equator, one at 60 degrees north
QueryPool == {<<0, 0>>, <<0, 60>>}

\* kmrad=1e2 (line 148)
KmRadDefault == 100
\* kmrad = 250e0 (line 207)
KmRadMain == 250

InitAgg ==
    /\ wod_dbase \in SeqsUpTo(CatalogPool, MaxCat)
    /\ \E pts \in SeqsUpTo(QueryPool, MaxQ) :
         /\ lon_arr = [i \in 1..Len(pts) |-> pts[i][1]]
         /\ lat_arr = [i \in 1..Len(pts) |-> pts[i][2]]
    /\ which_ones \in {"N2", "all", "SA"}
    /\ kmrad \in {KmRadDefault, KmRadMain}
    /\ g_n = 0
    /\ avg_vars_grd = <<>>
    /\ std_vars_grd = <<>>
    /\ min_vars_grd = <<>>
    /\ max_vars_grd = <<>>
    /\ g_calls = <<>>
    /\ g_raised_in = "none"
    /\ g_pc = "loop"
    /\ IdleR /\ IdleQ /\ IdleA /\ IdleI

NextSubset == LocSubset(wod_dbase, lon_arr, lat_arr, g_n + 1, kmrad)

\* a query point with no good profile around it: nothing is appended
QueryNoProfiles ==
    /\ g_pc = "loop"
    /\ g_n < Len(lon_arr)
    /\ Len(NextSubset) = 0
    /\ g_n' = g_n + 1
    /\ g_calls' = <<>>
    /\ UNCHANGED <<wod_dbase, lon_arr, lat_arr, which_ones, kmrad,
                   avg_vars_grd, std_vars_grd, min_vars_grd, max_vars_grd,
                   g_raised_in, g_pc>>
    /\ UNCHANGED <<rvars, qvars, avars, ivars>>

\* a query point with good profiles: the four statistics are appended
QueryAggregate ==
    /\ g_pc = "loop"
    /\ g_n < Len(lon_arr)
    /\ Len(NextSubset) > 0
    /\ LET a == Assemble(NextSubset, StdGrid, which_ones)
       IN  /\ ~a.raised
           /\ g_calls' = a.calls
           /\ avg_vars_grd' = Append(avg_vars_grd,
                                     NanReduce("nanmedian", a.reg_arr))
           /\ std_vars_grd' = Append(std_vars_grd,
                                     NanReduce("nanstd", a.reg_arr))
           /\ min_vars_grd' = Append(min_vars_grd,
                                     NanReduce("nanquantile05", a.reg_arr))
           /\ max_vars_grd' = Append(max_vars_grd,
                                     NanReduce("nanquantile95", a.reg_arr))
    /\ g_n' = g_n + 1
    /\ UNCHANGED <<wod_dbase, lon_arr, lat_arr, which_ones, kmrad,
                   g_raised_in, g_pc>>
    /\ UNCHANGED <<rvars, qvars, avars, ivars>>

\* a query point with good profiles: an exception ends the run
QueryRaises ==
    /\ g_pc = "loop"
    /\ g_n < Len(lon_arr)
    /\ Len(NextSubset) > 0
    /\ LET a == Assemble(NextSubset, StdGrid, which_ones)
       IN  /\ a.raised
           /\ g_calls' = a.calls
           /\ g_raised_in' = a.in
    /\ g_pc' = "raised"
    /\ UNCHANGED <<wod_dbase, lon_arr, lat_arr, which_ones, kmrad, g_n,
                   avg_vars_grd, std_vars_grd, min_vars_grd, max_vars_grd>>
    /\ UNCHANGED <<rvars, qvars, avars, ivars>>

\* line 185: the four lists are returned as arrays
ReturnArrays ==
    /\ g_pc = "loop"
    /\ g_n = Len(lon_arr)
    /\ g_pc' = "returned"
    /\ UNCHANGED <<wod_dbase, lon_arr, lat_arr, which_ones, kmrad, g_n,
                   avg_vars_grd, std_vars_grd, min_vars_grd, max_vars_grd,
                   g_calls, g_raised_in>>
    /\ UNCHANGED <<rvars, qvars, avars, ivars>>

NextAgg == QueryNoProfiles \/ QueryAggregate \/ QueryRaises \/ ReturnArrays

SpecAgg == InitAgg /\ [][NextAgg]_vars


----------------------------------------------------------------------------
(* Properties of search_assemble_radavg, checked under SpecAgg *)

\* the good profiles around query point i
SubsetAt(i) == LocSubset(wod_dbase, lon_arr, lat_arr, i, kmrad)

\* the result for query point i when its subset is not empty
ResultAt(name, i) ==
    NanReduce(name, Assemble(SubsetAt(i), StdGrid, which_ones).reg_arr)

\* a result row that is not-a-number at every grid level and channel
AllNaN(row) ==
    /\ Len(row) = Len(StdGrid)
    /\ \A z \in 1..Len(row) :
         /\ Len(row[z]) > 0
         /\ \A c \in 1..Len(row[z]) : row[z][c] = NaN

\* C1 (as claimed): each of the four arrays returned has one row per query
\* point, and row i is the result for query point i.
C1_OneRowPerQueryPoint ==
    g_pc = "returned" =>
        /\ Len(avg_vars_grd) = Len(lon_arr)
        /\ Len(std_vars_grd) = Len(lon_arr)
        /\ Len(min_vars_grd) = Len(lon_arr)
        /\ Len(max_vars_grd) = Len(lon_arr)
        /\ \A i \in 1..Len(lon_arr) :
             Len(SubsetAt(i)) > 0 =>
                /\ avg_vars_grd[i] = ResultAt("nanmedian", i)
                /\ std_vars_grd[i] = ResultAt("nanstd", i)
                /\ min_vars_grd[i] = ResultAt("nanquantile05", i)
                /\ max_vars_grd[i] = ResultAt("nanquantile95", i)

\* C2 (as claimed): a query point whose subset is empty after the radius
\* filter and the quality gate gets a row of not-a-numbers in all four
\* arrays; the run does not raise there and goes on to the next point.
C2_EmptySubsetGivesNaNRow ==
    /\ g_pc = "returned" =>
         \A i \in 1..Len(lon_arr) :
            Len(SubsetAt(i)) = 0 =>
               /\ i <= Len(avg_vars_grd) /\ AllNaN(avg_vars_grd[i])
               /\ i <= Len(std_vars_grd) /\ AllNaN(std_vars_grd[i])
               /\ i <= Len(min_vars_grd) /\ AllNaN(min_vars_grd[i])
               /\ i <= Len(max_vars_grd) /\ AllNaN(max_vars_grd[i])
    /\ g_pc = "raised" => Len(SubsetAt(g_n + 1)) > 0

\* C5 (as claimed): with a channel selector other than 'N2' the run never
\* returns a result; it ends with an exception raised between derive_variables
\* and the regridding, before any call of z_pinterp.
C5_BadSelectorAlwaysAborts ==
    (which_ones \in {"all", "SA"} /\ g_pc \in {"returned", "raised"}) =>
        /\ g_pc = "raised"
        /\ g_raised_in \in {"derive_variables", "wrap_regrid_2_std_z"}
        /\ g_calls = <<>>

\* the query point the calls of g_calls were made for
LatestQuery == IF g_pc = "raised" THEN g_n + 1 ELSE g_n

ChannelNames == <<"N2", "alpha", "beta">>

\* C10: with the 'N2' channel set, the channels of every surviving profile
\* are regridded, profile by profile and channel by channel, each against
\* the midpoint pressure axis of that same profile (one level fewer than the
\* profile's pressure sequence), and the stack that is reduced holds the row
\* of profile p, channel c at [p][.][c].
C10_RegridAgainstOwnMidpointAxis ==
    (g_pc \in {"loop", "returned", "raised"} /\ Len(g_calls) > 0) =>
        LET sub == SubsetAt(LatestQuery)
            nch == Len(ChannelNames)
        IN  /\ which_ones = "N2"
            /\ Len(g_calls) <= Len(sub) * nch
            /\ g_pc # "raised" => Len(g_calls) = Len(sub) * nch
            /\ \A r \in 1..Len(g_calls) :
                 LET p   == ((r - 1) \div nch) + 1
                     c   == ((r - 1) % nch) + 1
                     rec == sub[p]
                 IN  /\ g_calls[r].prof = p
                     /\ g_calls[r].chan = c
                     /\ g_calls[r].var.data =
                          [k \in 1..(Len(rec.pres) - 1) |->
                              <<ChannelNames[c], rec.cast, k>>]
                     /\ Len(g_calls[r].axis) = Len(rec.pres) - 1
                     /\ g_calls[r].axis = MidPressure(rec.pres)
                     /\ g_calls[r].axis # rec.pres
            /\ g_pc # "raised" =>
                 \A z \in 1..Len(StdGrid) : \A c \in 1..nch :
                    avg_vars_grd[Len(avg_vars_grd)][z][c] =
                        NanStat("nanmedian",
                                [p \in 1..Len(sub) |->
                                    g_calls[(p - 1) * nch + c].out.row[z]])

\* C10 witness: two surviving profiles of 3 and 4 levels around one query
\* point, six calls, the first three on the axis <<15, 25>>, the last three
\* on the axis <<20, 15, 40>>
C10_Witness ==
    /\ g_pc = "returned"
    /\ which_ones = "N2"
    /\ Len(g_calls) = 6
    /\ g_calls[1].axis = <<15, 25>>
    /\ g_calls[3].axis = <<15, 25>>
    /\ g_calls[4].axis = <<20, 15, 40>>
    /\ g_calls[6].axis = <<20, 15, 40>>
    /\ Len(avg_vars_grd) = 1

=============================================================================
